---- MODULE Spec2Model ----
(***************************************************************************)
(* mergeSubtitle: the batch driver (index.ts processSubtitles), the        *)
(* pipeline of one job (SubtitleProcessor.process), the container          *)
(* mutations (mergeSubtitle, removeSubtitleByLanguage) and the flag        *)
(* normalizer (AdjustFlags), over a file system of one video container,    *)
(* one subtitle file and the two temp paths of the mutations.              *)
(***************************************************************************)
EXTENDS Integers, Sequences, FiniteSets, TLC

\* Number of matched (video, subtitle) pairs the driver loop visits.
NumJobs == 2

----------------------------------------------------------------------------
\* Language table (languages.json: name -> ordered codes, first = canonical)

LangNames == {"Persian", "English"}

getLanguageCodes(name) ==
    CASE name = "Persian" -> <<"per", "fas">>
      [] name = "English" -> <<"eng", "en">>
      [] OTHER -> <<>>

\* a lookup that ignores the letter case of the name
KnownLanguage_AnyCase(name) == name \in LangNames \cup {"persian"}

\* getLanguageCodes[name] is undefined for a name that is not a key
KnownLanguage(name) == name \in LangNames

Includes(codes, c) == \E i \in 1..Len(codes) : codes[i] = c

\* languageCodes.ts getLanguageCodeFromName: codes?.[0], undefined if unknown
getLanguageCodeFromName(name) ==
    IF KnownLanguage(name) THEN getLanguageCodes(name)[1] ELSE "undefined"

----------------------------------------------------------------------------
\* Tracks and files

Track(uid, type, lang, def, forced, name) ==
    [uid |-> uid, type |-> type, language |-> lang,
     isDefault |-> def, isForced |-> forced, name |-> name]

\* stale: the file was written before the running job began
Absent == [exists |-> FALSE, complete |-> FALSE, tracks |-> <<>>, stale |-> FALSE]
\* a file some writer left truncated
Partial == [exists |-> TRUE, complete |-> FALSE, tracks |-> <<>>, stale |-> FALSE]
Container(tracks) ==
    [exists |-> TRUE, complete |-> TRUE, tracks |-> tracks, stale |-> FALSE]

\* a temp file as a later job finds it
AsStale(f) == IF f.exists THEN [f EXCEPT !.stale = TRUE] ELSE f

V1 == Track(1, "video", "und", TRUE, FALSE, "")
A_eng == Track(2, "audio", "eng", TRUE, FALSE, "")
S_per == Track(3, "subtitles", "per", FALSE, FALSE, "")
S_fas == Track(4, "subtitles", "fas", TRUE, TRUE, "Forced")
S_eng == Track(5, "subtitles", "eng", TRUE, FALSE, "")

\* What an earlier run of the program may have left at a temp path
StaleTracks == <<V1, S_per>>

\* The containers a job may find at its video path
Containers ==
    { <<V1, A_eng>>,
      <<V1, A_eng, S_fas, S_eng>>,
      <<V1, S_per, S_fas>> }

\* What the subtitle path holds: a valid .srt (three timecodes or more), one
\* with fewer timecodes, an empty file, a file that cannot be read, nothing.
SubKinds == {"valid", "invalid", "empty", "unreadable", "absent"}

\* Exit of a spawned tool
Exits == {"ok", "exit1", "spawnerr"}

RECURSIVE DropIds(_, _)
\* mkvmerge -s !ids: every track except the listed ids, order kept
DropIds(tracks, ids) ==
    IF tracks = <<>> THEN <<>>
    ELSE LET n == Len(tracks)
             rest == DropIds(SubSeq(tracks, 1, n - 1), ids)
         IN IF (n - 1) \in ids THEN rest ELSE Append(rest, tracks[n])

MaxUid(tracks) ==
    IF tracks = <<>> THEN 0
    ELSE CHOOSE m \in {tracks[i].uid : i \in 1..Len(tracks)} :
            \A i \in 1..Len(tracks) : tracks[i].uid <= m

----------------------------------------------------------------------------
\* Subtitle-file collaborators (verifySubtitle.ts, utf8subs.ts)

\* verifySubtitle: false for a missing or empty file or fewer than three
\* timecodes; readFileSync throws on a file that exists but cannot be read
verifySubtitle(kind) ==
    CASE kind = "unreadable" -> "throw"
      [] kind = "valid" -> "true"
      [] OTHER -> "false"

\* convertToUtf8 on a .srt path: false when the file cannot be read or is
\* empty, true otherwise (the driver only passes paths that end in .srt)
convertToUtf8(kind) ==
    IF kind \in {"absent", "unreadable", "empty"} THEN "false" ELSE "true"

\* convertSubToUtf8: awaits both calls, drops what they return, and is false
\* only when one of them throws
convertSubToUtf8(kind) ==
    IF verifySubtitle(kind) = "throw" THEN FALSE ELSE TRUE

\* the .then/.catch of cleanAds and syncWithVideo: true when the tool exits
\* zero and the verifySubtitle call in .then does not throw
StageAfterTool(exit, kind) ==
    IF exit = "ok" THEN verifySubtitle(kind) # "throw" ELSE FALSE

cleanAds(exit, kind) == StageAfterTool(exit, kind)

\* a .catch that logs the failure and still reports the stage as done
syncWithVideo_CatchTrue(exit, kind) == TRUE

syncWithVideo(exit, kind) == StageAfterTool(exit, kind)

\* What an in-place tool that exited zero may leave at the subtitle path
ToolOutputs(kind) ==
    IF kind \in {"absent", "unreadable"} THEN {kind} ELSE {kind, "empty"}

----------------------------------------------------------------------------
\* removeSubtitleByLanguage / verifySubtitleRemoval (pure parts)

IsLangSub(t, codes) == t.type = "subtitles" /\ Includes(codes, t.language)

\* a filter that compares with the canonical code only
subsToRemove_CanonicalOnly(tracks, codes) ==
    {i - 1 : i \in {j \in 1..Len(tracks) :
        tracks[j].type = "subtitles" /\ codes # <<>> /\ tracks[j].language = codes[1]}}

\* a filter that forgets the language and takes every subtitle track
subsToRemove_AllSubs(tracks, codes) ==
    {i - 1 : i \in {j \in 1..Len(tracks) : tracks[j].type = "subtitles"}}

\* data.tracks.filter(...).map(track => track.id); ids are container-order
\* positions, counted from 0 (mkvmerge -J)
subsToRemove(tracks, codes) ==
    {i - 1 : i \in {j \in 1..Len(tracks) : IsLangSub(tracks[j], codes)}}

\* a verification that passes whatever the temp output holds
verifySubtitleRemoval_NoCheck(tracks, codes) == TRUE

verifySubtitleRemoval(tracks, codes) == subsToRemove(tracks, codes) = {}

\* the container mkvmerge writes when it adds the subtitle file as a track
\* with --language, --track-name, --default-track yes, --forced-track yes
MuxOutput(tracks, language, title) ==
    Append(tracks, Track(MaxUid(tracks) + 1, "subtitles", language, TRUE, TRUE, title))

----------------------------------------------------------------------------
\* AdjustFlags (adjustFlags.ts): the normalizer over one container

\* String.toLowerCase over the track names of the model
ToLowerCase(name) ==
    CASE name = "Commentary" -> "commentary"
      [] name = "Director COMMENTARY" -> "director commentary"
      [] name = "Forced" -> "forced"
      [] name = "Persian" -> "persian"
      [] name = "English" -> "english"
      [] OTHER -> name

\* String.includes over the lowercased names of the model
StrIncludes(str, word) ==
    \/ str = word
    \/ str = "director commentary" /\ word \in {"director", "commentary"}

\* a check that compares the name as written
isCommentaryTrack_CaseSensitive(name) == StrIncludes(name, "commentary")

\* trackName?.toLowerCase().includes("commentary") ?? false
isCommentaryTrack(name) == StrIncludes(ToLowerCase(name), "commentary")

nameContainsForced(name) == StrIncludes(ToLowerCase(name), "forced")

isLanguageMatch(code, desiredLang) ==
    KnownLanguage(desiredLang) /\ Includes(getLanguageCodes(desiredLang), code)

TracksOfType(tracks, type) == SelectSeq(tracks, LAMBDA t : t.type = type)

\* mkvpropedit --edit track:=uid --set flag-default --set flag-forced --set name
\* editOk: the edit command exits zero; a failed edit changes nothing
editVideo(tracks, uid, flagDefault, flagForced, name, editOk) ==
    IF ~editOk THEN tracks
    ELSE [i \in 1..Len(tracks) |->
            IF tracks[i].uid = uid
            THEN [tracks[i] EXCEPT !.isDefault = flagDefault,
                                   !.isForced = flagForced, !.name = name]
            ELSE tracks[i]]

\* a reset that sets the two flags and leaves the name
resetTrackFlags_KeepName(tracks, uid, editOk) ==
    IF ~editOk THEN tracks
    ELSE [i \in 1..Len(tracks) |->
            IF tracks[i].uid = uid
            THEN [tracks[i] EXCEPT !.isDefault = FALSE, !.isForced = FALSE]
            ELSE tracks[i]]

resetTrackFlags(tracks, uid, editOk) == editVideo(tracks, uid, FALSE, FALSE, "", editOk)

\* a promotion that sets the two flags and leaves the name
setTrackAsDefault_KeepName(tracks, uid, editOk) ==
    IF ~editOk THEN tracks
    ELSE [i \in 1..Len(tracks) |->
            IF tracks[i].uid = uid
            THEN [tracks[i] EXCEPT !.isDefault = TRUE, !.isForced = TRUE]
            ELSE tracks[i]]

setTrackAsDefault(tracks, uid, editOk) == editVideo(tracks, uid, TRUE, TRUE, "Forced", editOk)

\* a verification that only checks that the track is still there
verifyFlags_FoundOnly(tracks, uid) ==
    \E i \in 1..Len(tracks) : tracks[i].uid = uid

verifyFlags(tracks, uid) ==
    \E i \in 1..Len(tracks) :
        tracks[i].uid = uid /\ tracks[i].isDefault /\ tracks[i].isForced

RECURSIVE AudioLoop(_, _, _, _, _)
\* the for loop of adjustAudioFlags over the tracks read at its start (snap),
\* k the next track, cur the container as edited so far
AudioLoop(snap, k, cur, lang, editOk) ==
    IF k > Len(snap) THEN [ret |-> TRUE, tracks |-> cur]
    ELSE LET a == snap[k]
             MatchedLang == isLanguageMatch(a.language, lang)
             isCommentary == isCommentaryTrack(a.name)
             c1 == IF ~MatchedLang /\ (isCommentary \/ a.isDefault \/ a.isForced)
                   THEN resetTrackFlags(cur, a.uid, editOk) ELSE cur
         IN IF MatchedLang /\ ~isCommentary /\ (~a.isDefault \/ ~a.isForced)
            THEN LET c2 == setTrackAsDefault(c1, a.uid, editOk)
                 IN IF verifyFlags(c2, a.uid)
                    THEN AudioLoop(snap, k + 1, c2, lang, editOk)
                    ELSE [ret |-> FALSE, tracks |-> c2]
            ELSE AudioLoop(snap, k + 1, c1, lang, editOk)

\* inspectOk: the identify calls of this pass succeed; a failed one throws
\* into the catch, which returns false
adjustAudioFlags(tracks, lang, inspectOk, editOk) ==
    IF ~inspectOk THEN [ret |-> FALSE, tracks |-> tracks]
    ELSE LET audioTracks == TracksOfType(tracks, "audio")
         IN IF audioTracks = <<>> THEN [ret |-> FALSE, tracks |-> tracks]
            ELSE AudioLoop(audioTracks, 1, tracks, lang, editOk)

RECURSIVE SubtitleLoop(_, _, _, _, _)
SubtitleLoop(snap, k, cur, lang, editOk) ==
    IF k > Len(snap) THEN [ret |-> TRUE, tracks |-> cur]
    ELSE LET sub == snap[k]
             MatchedLang == isLanguageMatch(sub.language, lang)
             c1 == IF ~MatchedLang /\ (sub.isForced \/ sub.isDefault
                                        \/ nameContainsForced(sub.name))
                   THEN resetTrackFlags(cur, sub.uid, editOk) ELSE cur
         IN IF MatchedLang /\ (~sub.isForced \/ ~sub.isDefault)
            THEN LET c2 == setTrackAsDefault(c1, sub.uid, editOk)
                 IN IF verifyFlags(c2, sub.uid)
                    THEN SubtitleLoop(snap, k + 1, c2, lang, editOk)
                    ELSE [ret |-> FALSE, tracks |-> c2]
            ELSE SubtitleLoop(snap, k + 1, c1, lang, editOk)

adjustSubtitleFlags(tracks, lang, inspectOk, editOk) ==
    IF ~inspectOk THEN [ret |-> FALSE, tracks |-> tracks]
    ELSE LET subtitleTracks == TracksOfType(tracks, "subtitles")
         IN IF subtitleTracks = <<>> THEN [ret |-> TRUE, tracks |-> tracks]
            ELSE SubtitleLoop(subtitleTracks, 1, tracks, lang, editOk)

\* AdjustFlags.adjustFlags: audio, then subtitles, then `return true`
adjustFlags(tracks, subLang, audioLang, inspectOk, editOk) ==
    LET a == adjustAudioFlags(tracks, audioLang, inspectOk, editOk)
        s == adjustSubtitleFlags(a.tracks, subLang, inspectOk, editOk)
    IN [ret |-> TRUE, audio |-> a.ret, sub |-> s.ret, tracks |-> s.tracks]

----------------------------------------------------------------------------
\* State

VARIABLES
    opts,        \* the options every SubtitleProcessor of the run is built with
    jobIdx,      \* how many matched pairs the driver loop has taken
    jobStatus,   \* per pair: pending, skipped, running, done, failed, threw
    batch,       \* running, done (loop ran to its end), aborted (loop left by a throw)
    pc,          \* where the driver / process() / mergeSubtitle is
    fin,         \* where the .finally callback of mergeSubtitle is
    files,       \* video path, subtitle path, <video>_RemovingSub.mkv, <video>_merged.mkv
    log,         \* stages invoked and file operations done in the current job, in order
    mergeState,  \* the promise mergeSubtitle returned: none, pending, resolved, rejected
    rem,         \* the removeSubtitleByLanguage call of the current job
    exits,       \* exit of each tool spawned in the current job
    adj,         \* the AdjustFlags instance of the current job and what it returned
    hist,        \* what the collaborators returned; the container before the removal
    norm         \* an AdjustFlags pass run step by step (specification SpecN)

vars == <<opts, jobIdx, jobStatus, batch, pc, fin, files, log, mergeState, rem,
          exits, adj, hist, norm>>

\* no step-by-step pass is running
NoNorm == [pc |-> "none"]

NoRem == [state |-> "none", fail |-> "none", found |-> -1]
NoExits == [clean |-> "none", sync |-> "none", remux |-> "none", mux |-> "none"]
NoAdj == [made |-> FALSE, subLang |-> "", audioLang |-> "", ret |-> "none",
          audio |-> "none", sub |-> "none", reported |-> FALSE]
NoHist == [convRet |-> "none", verifyFalse |-> FALSE, pre |-> Absent,
           preTemp |-> Absent, preSub |-> "none", merges |-> 0]

\* index.ts 83-88, 287-292; subtitleProcessor.ts constructor
Options ==
    [subtitleLang : {"Persian", "English", "persian"},
     audioLang : {"English", "Persian"},
     shouldConvert : BOOLEAN, shouldClean : BOOLEAN, shouldSync : BOOLEAN,
     keepSubtitle : BOOLEAN]

Init ==
    /\ opts \in Options
    /\ jobIdx = 0
    /\ jobStatus = [j \in 1..NumJobs |-> "pending"]
    /\ batch = "running"
    /\ pc = "loop"
    /\ fin = "none"
    /\ files = [video |-> Absent, sub |-> "absent", tempR |-> Absent, tempM |-> Absent]
    /\ log = <<>>
    /\ mergeState = "none"
    /\ rem = NoRem
    /\ exits = NoExits
    /\ adj = NoAdj
    /\ hist = NoHist
    /\ norm = NoNorm

BoolStr(b) == IF b THEN "true" ELSE "false"

SetStatus(s) == jobStatus' = [jobStatus EXCEPT ![jobIdx] = s]

\* process() returns after "Skipping subtitle": the loop goes on
JobReturns(s) == /\ SetStatus(s) /\ pc' = "loop"

----------------------------------------------------------------------------
\* The driver loop (index.ts processSubtitles, processFolder/index.ts)

\* safeRename threw: the pair is skipped with `continue`
SkipPair ==
    /\ pc = "loop" /\ jobIdx < NumJobs
    /\ jobIdx' = jobIdx + 1
    /\ jobStatus' = [jobStatus EXCEPT ![jobIdx + 1] = "skipped"]
    /\ fin' = "none" /\ log' = <<>> /\ mergeState' = "none"
    /\ rem' = NoRem /\ exits' = NoExits /\ adj' = NoAdj
    /\ hist' = [NoHist EXCEPT !.merges = hist.merges]
    /\ UNCHANGED <<norm, opts, batch, pc, files>>

\* the next matched pair: a new SubtitleProcessor and process() begins. The
\* pair's video is the one the previous pair matched, as the previous job
\* left it, or another container, with or without temp files that an
\* earlier run of the program left next to it.
StartJob ==
    /\ pc = "loop" /\ jobIdx < NumJobs
    /\ jobIdx' = jobIdx + 1
    /\ jobStatus' = [jobStatus EXCEPT ![jobIdx + 1] = "running"]
    /\ \E k \in {"valid", "invalid", "empty", "unreadable"} :
          \/ /\ files.video.exists
             /\ files' = [files EXCEPT !.sub = k, !.tempR = AsStale(@),
                                       !.tempM = AsStale(@)]
             /\ hist' = [NoHist EXCEPT !.merges = hist.merges]
          \/ \E c \in Containers, left \in {Absent, AsStale(Container(StaleTracks))} :
                /\ files' = [video |-> Container(c), sub |-> k,
                             tempR |-> left, tempM |-> left]
                /\ hist' = NoHist
    /\ pc' = "convert"
    /\ fin' = "none" /\ log' = <<>> /\ mergeState' = "none"
    /\ rem' = NoRem /\ exits' = NoExits /\ adj' = NoAdj
    /\ UNCHANGED <<norm, opts, batch>>

\* the for loop ran out of subtitle files
BatchDone ==
    /\ pc = "loop" /\ jobIdx = NumJobs
    /\ batch' = "done" /\ pc' = "exit"
    /\ UNCHANGED <<norm, opts, jobIdx, jobStatus, fin, files, log, mergeState, rem, exits, adj, hist>>

----------------------------------------------------------------------------
\* SubtitleProcessor.process: convert, clean, sync

Convert ==
    /\ pc = "convert"
    /\ IF opts.shouldConvert
       THEN /\ log' = Append(log, "convert")
            /\ hist' = [hist EXCEPT
                          !.convRet = convertToUtf8(files.sub),
                          !.verifyFalse = (verifySubtitle(files.sub) = "false")]
            /\ IF convertSubToUtf8(files.sub)
               THEN pc' = "clean" /\ UNCHANGED jobStatus
               ELSE JobReturns("failed")
       ELSE pc' = "clean" /\ UNCHANGED <<log, hist, jobStatus>>
    /\ UNCHANGED <<norm, opts, jobIdx, batch, fin, files, mergeState, rem, exits, adj>>

\* a clean stage that runs whatever shouldClean says
Clean_Always ==
    /\ pc = "clean"
    /\ \E exit \in Exits :
       \E out \in (IF exit = "ok" THEN ToolOutputs(files.sub) ELSE {files.sub}) :
          /\ log' = Append(log, "clean")
          /\ exits' = [exits EXCEPT !.clean = exit]
          /\ files' = [files EXCEPT !.sub = out]
          /\ hist' = [hist EXCEPT !.verifyFalse =
                        @ \/ (exit = "ok" /\ verifySubtitle(out) = "false")]
          /\ IF cleanAds(exit, out)
             THEN pc' = "sync" /\ UNCHANGED jobStatus
             ELSE JobReturns("failed")
    /\ UNCHANGED <<norm, opts, jobIdx, batch, fin, mergeState, rem, adj>>

Clean ==
    /\ pc = "clean"
    /\ IF opts.shouldClean
       THEN \E exit \in Exits :
            \E out \in (IF exit = "ok" THEN ToolOutputs(files.sub) ELSE {files.sub}) :
               /\ log' = Append(log, "clean")
               /\ exits' = [exits EXCEPT !.clean = exit]
               /\ files' = [files EXCEPT !.sub = out]
               /\ hist' = [hist EXCEPT !.verifyFalse =
                             @ \/ (exit = "ok" /\ verifySubtitle(out) = "false")]
               /\ IF cleanAds(exit, out)
                  THEN pc' = "sync" /\ UNCHANGED jobStatus
                  ELSE JobReturns("failed")
       ELSE pc' = "sync" /\ UNCHANGED <<log, exits, files, hist, jobStatus>>
    /\ UNCHANGED <<norm, opts, jobIdx, batch, fin, mergeState, rem, adj>>

Sync ==
    /\ pc = "sync"
    /\ IF opts.shouldSync
       THEN \E exit \in Exits :
            \E out \in (IF exit = "ok" THEN ToolOutputs(files.sub) ELSE {files.sub}) :
               /\ log' = Append(log, "sync")
               /\ exits' = [exits EXCEPT !.sync = exit]
               /\ files' = [files EXCEPT !.sub = out]
               /\ hist' = [hist EXCEPT !.verifyFalse =
                             @ \/ (exit = "ok" /\ verifySubtitle(out) = "false")]
               /\ IF syncWithVideo(exit, out)
                  THEN pc' = "merge" /\ UNCHANGED jobStatus
                  ELSE JobReturns("failed")
       ELSE pc' = "merge" /\ UNCHANGED <<log, exits, files, hist, jobStatus>>
    /\ UNCHANGED <<norm, opts, jobIdx, batch, fin, mergeState, rem, adj>>

----------------------------------------------------------------------------
\* SubtitleProcessor.merge / mergeSubtitle / removeSubtitleByLanguage

\* merge(): getLanguageCodeFromName(this.subtitleLang) || "und"
MergeLanguage(name) ==
    IF getLanguageCodeFromName(name) = "undefined" THEN "und"
    ELSE getLanguageCodeFromName(name)

LangCodes == getLanguageCodes(opts.subtitleLang)

\* the catch block of mergeSubtitle: an Error is rethrown, anything else
\* (the strings removeSubtitleByLanguage rejects with) is dropped and the
\* async function returns undefined
CatchInMerge(isError) == IF isError THEN "rejected" ELSE "resolved"

\* removeSubtitleByLanguage rejects inside the try block of mergeSubtitle
RemovalRejects(why, isError) ==
    /\ rem' = [rem EXCEPT !.state = "rejected", !.fail = why]
    /\ mergeState' = CatchInMerge(isError)
    /\ pc' = "awaitMerge"

\* merge() calls mergeSubtitle; the existence checks before the try block
MergeEnter ==
    /\ pc = "merge"
    /\ log' = Append(log, "merge")
    /\ hist' = [hist EXCEPT !.preSub = files.sub]
    /\ IF ~files.video.exists \/ files.sub = "absent"
       THEN mergeState' = "rejected" /\ pc' = "awaitMerge"
       ELSE mergeState' = "pending" /\ pc' = "r.lookup"
    /\ UNCHANGED <<norm, opts, jobIdx, jobStatus, batch, fin, files, rem, exits, adj>>

\* getLanguageCodes[languageName]; unknown name: Promise.reject(string)
R_Lookup ==
    /\ pc = "r.lookup"
    /\ hist' = [hist EXCEPT !.pre = files.video, !.preTemp = files.tempR]
    /\ IF ~KnownLanguage(opts.subtitleLang)
       THEN RemovalRejects("unknownLang", FALSE)
       ELSE /\ rem' = [rem EXCEPT !.state = "running"]
            /\ pc' = "r.inspect" /\ UNCHANGED mergeState
    /\ UNCHANGED <<norm, opts, jobIdx, jobStatus, batch, fin, files, log, exits, adj>>

\* exec mkvmerge -J inputPath; no matching subtitle track: return
R_Inspect ==
    /\ pc = "r.inspect"
    /\ log' = Append(log, "r.inspect")
    /\ \E ok \in BOOLEAN :
          IF ~ok THEN RemovalRejects("inspect", TRUE)
          ELSE IF subsToRemove(files.video.tracks, LangCodes) = {}
          THEN /\ rem' = [rem EXCEPT !.state = "resolved"]
               /\ pc' = "m.copy" /\ UNCHANGED mergeState
          ELSE pc' = "r.remux" /\ UNCHANGED <<rem, mergeState>>
    /\ UNCHANGED <<norm, opts, jobIdx, jobStatus, batch, fin, files, exits, adj, hist>>

\* runCommand mkvmerge -o <video>_RemovingSub.mkv -s !ids inputPath. A zero
\* exit leaves a complete container, with the tracks dropped or (the case
\* the verification is there for) not; a failure leaves the temp path as it
\* was or truncated.
R_Remux ==
    /\ pc = "r.remux"
    /\ log' = Append(log, "r.remux")
    /\ \E exit \in Exits :
          /\ exits' = [exits EXCEPT !.remux = exit]
          /\ IF exit = "ok"
             THEN /\ \E out \in {DropIds(files.video.tracks,
                                         subsToRemove(files.video.tracks, LangCodes)),
                                 files.video.tracks} :
                        files' = [files EXCEPT !.tempR = Container(out)]
                  /\ pc' = "r.verify" /\ UNCHANGED <<rem, mergeState>>
             ELSE /\ \E left \in {files.tempR} \cup
                                 (IF exit = "exit1" THEN {Partial} ELSE {}) :
                        files' = [files EXCEPT !.tempR = left]
                  /\ RemovalRejects("remux", TRUE)
    /\ UNCHANGED <<norm, opts, jobIdx, jobStatus, batch, fin, adj, hist>>

\* verifySubtitleRemoval on the temp output; false: Promise.reject(string)
R_Verify ==
    /\ pc = "r.verify"
    /\ log' = Append(log, "r.verify")
    /\ \E ok \in BOOLEAN :
          IF ~ok THEN RemovalRejects("verifyExec", TRUE)
          ELSE IF ~verifySubtitleRemoval(files.tempR.tracks, LangCodes)
          THEN /\ rem' = [rem EXCEPT !.state = "rejected", !.fail = "verify",
                            !.found = Cardinality(subsToRemove(files.tempR.tracks, LangCodes))]
               /\ mergeState' = CatchInMerge(FALSE)
               /\ pc' = "awaitMerge"
          ELSE /\ rem' = [rem EXCEPT !.found =
                            Cardinality(subsToRemove(files.tempR.tracks, LangCodes))]
               /\ pc' = "r.unlink" /\ UNCHANGED mergeState
    /\ UNCHANGED <<norm, opts, jobIdx, jobStatus, batch, fin, files, exits, adj, hist>>

\* await unlink(inputPath)
R_Unlink ==
    /\ pc = "r.unlink"
    /\ \E ok \in BOOLEAN :
          IF ok
          THEN /\ files' = [files EXCEPT !.video = Absent]
               /\ log' = Append(log, "r.unlink")
               /\ pc' = "r.rename" /\ UNCHANGED <<rem, mergeState>>
          ELSE /\ log' = Append(log, "r.unlink.fail")
               /\ RemovalRejects("unlink", TRUE) /\ UNCHANGED files
    /\ UNCHANGED <<norm, opts, jobIdx, jobStatus, batch, fin, exits, adj, hist>>

\* await rename(filePath, inputPath)
R_Rename ==
    /\ pc = "r.rename"
    /\ \E ok \in BOOLEAN :
          IF ok
          THEN /\ files' = [files EXCEPT !.video = files.tempR, !.tempR = Absent]
               /\ log' = Append(log, "r.rename")
               /\ rem' = [rem EXCEPT !.state = "resolved"]
               /\ pc' = "m.copy" /\ UNCHANGED mergeState
          ELSE /\ log' = Append(log, "r.rename.fail")
               /\ RemovalRejects("rename", TRUE) /\ UNCHANGED files
    /\ UNCHANGED <<norm, opts, jobIdx, jobStatus, batch, fin, exits, adj, hist>>


\* a copy that leaves a temp file that is already there
M_Copy_KeepExisting ==
    /\ pc = "m.copy"
    /\ \E ok \in BOOLEAN :
          IF ok
          THEN /\ files' = [files EXCEPT !.tempM =
                              IF @.exists THEN @ ELSE files.video]
               /\ log' = Append(log, "m.copy")
               /\ pc' = "m.mux" /\ UNCHANGED mergeState
          ELSE /\ \E left \in {files.tempM, Partial} :
                     files' = [files EXCEPT !.tempM = left]
               /\ log' = Append(log, "m.copy.fail")
               /\ mergeState' = CatchInMerge(TRUE)
               /\ pc' = "awaitMerge"
    /\ UNCHANGED <<norm, opts, jobIdx, jobStatus, batch, fin, rem, exits, adj, hist>>

\* await copyFile(videoPath, tempOutput).catch(... throw new Error ...)
M_Copy ==
    /\ pc = "m.copy"
    /\ \E ok \in BOOLEAN :
          IF ok
          THEN /\ files' = [files EXCEPT !.tempM = files.video]
               /\ log' = Append(log, "m.copy")
               /\ pc' = "m.mux" /\ UNCHANGED mergeState
          ELSE /\ \E left \in {files.tempM, Partial} :
                     files' = [files EXCEPT !.tempM = left]
               /\ log' = Append(log, "m.copy.fail")
               /\ mergeState' = CatchInMerge(TRUE)
               /\ pc' = "awaitMerge"
    /\ UNCHANGED <<norm, opts, jobIdx, jobStatus, batch, fin, rem, exits, adj, hist>>

\* What the promise of mergeSubtitle is once runCommand("mkvmerge") has
\* settled: .catch calls reject(err) on a failure, and .finally runs next
\* in both cases
AfterMux(exit) == IF exit = "ok" THEN "pending" ELSE "rejected"

\* runCommand mkvmerge -o tempOutput videoPath ... subtitlePath
M_Mux ==
    /\ pc = "m.mux"
    /\ log' = Append(log, "m.mux")
    /\ \E exit \in Exits :
          /\ exits' = [exits EXCEPT !.mux = exit]
          /\ \E out \in (IF exit = "ok"
                         THEN {Container(MuxOutput(files.video.tracks,
                                   MergeLanguage(opts.subtitleLang), opts.subtitleLang))}
                         ELSE {files.tempM} \cup
                              (IF exit = "exit1" THEN {Partial} ELSE {})) :
                files' = [files EXCEPT !.tempM = out]
          /\ mergeState' = AfterMux(exit)
    /\ fin' = "unlink"
    /\ pc' = "awaitMerge"
    /\ UNCHANGED <<norm, opts, jobIdx, jobStatus, batch, rem, adj, hist>>

\* .finally: await unlink(this.videoPath). A rejection inside the callback
\* ends it: resolve() is never reached.
F_Unlink ==
    /\ fin = "unlink"
    /\ \E ok \in BOOLEAN :
          IF ok
          THEN /\ files' = [files EXCEPT !.video = Absent]
               /\ log' = Append(log, "m.unlink")
               /\ fin' = "rename"
          ELSE /\ log' = Append(log, "m.unlink.fail")
               /\ fin' = "dead" /\ UNCHANGED files
    /\ UNCHANGED <<norm, opts, jobIdx, jobStatus, batch, pc, mergeState, rem, exits, adj, hist>>

\* a callback that unlinks the subtitle whatever keepSubtitle says
AfterSwap_AlwaysUnlink(keepSubtitle) == "unlinkSub"

\* .finally: if (!this.keepSubtitle) ... : what follows the rename
AfterSwap(keepSubtitle) == IF keepSubtitle THEN "resolve" ELSE "unlinkSub"

\* .finally: await rename(tempOutput, this.videoPath)
F_Rename ==
    /\ fin = "rename"
    /\ \E ok \in BOOLEAN :
          IF ok
          THEN /\ files' = [files EXCEPT !.video = files.tempM, !.tempM = Absent]
               /\ log' = Append(log, "m.rename")
               /\ fin' = AfterSwap(opts.keepSubtitle)
          ELSE /\ log' = Append(log, "m.rename.fail")
               /\ fin' = "dead" /\ UNCHANGED files
    /\ UNCHANGED <<norm, opts, jobIdx, jobStatus, batch, pc, mergeState, rem, exits, adj, hist>>

\* .finally: if (!this.keepSubtitle) await unlink(this.subtitlePath)
F_UnlinkSub ==
    /\ fin = "unlinkSub"
    /\ \E ok \in BOOLEAN :
          IF ok
          THEN /\ files' = [files EXCEPT !.sub = "absent"]
               /\ log' = Append(log, "m.unlinkSub")
               /\ fin' = "resolve"
          ELSE /\ log' = Append(log, "m.unlinkSub.fail")
               /\ fin' = "dead" /\ UNCHANGED files
    /\ UNCHANGED <<norm, opts, jobIdx, jobStatus, batch, pc, mergeState, rem, exits, adj, hist>>

\* .finally: resolve(), without effect on a promise already rejected
F_Resolve ==
    /\ fin = "resolve"
    /\ fin' = "done"
    /\ mergeState' = IF mergeState = "pending" THEN "resolved" ELSE mergeState
    /\ hist' = [hist EXCEPT !.merges = IF exits.mux = "ok" THEN @ + 1 ELSE @]
    /\ UNCHANGED <<norm, opts, jobIdx, jobStatus, batch, pc, files, log, rem, exits, adj>>

\* await this.mergeSubtitle(...) resolved: merge() logs "Merged" and returns
MergeReturns ==
    /\ pc = "awaitMerge" /\ mergeState = "resolved"
    /\ log' = Append(log, "merged")
    /\ pc' = "adjust"
    /\ UNCHANGED <<norm, opts, jobIdx, jobStatus, batch, fin, files, mergeState, rem, exits, adj, hist>>

\* a driver that catches what process() throws and goes on with the loop
ProcessThrows_Continue ==
    /\ pc = "awaitMerge" /\ mergeState = "rejected"
    /\ SetStatus("threw")
    /\ pc' = "loop"
    /\ UNCHANGED <<norm, opts, jobIdx, batch, fin, files, log, mergeState, rem, exits, adj, hist>>

\* mergeSubtitle rejected: merge() and process() reject; the driver awaits
\* process() outside any try, so the for loop is left
ProcessThrows ==
    /\ pc = "awaitMerge" /\ mergeState = "rejected"
    /\ SetStatus("threw")
    /\ batch' = "aborted"
    /\ pc' = "exit"
    /\ UNCHANGED <<norm, opts, jobIdx, fin, files, log, mergeState, rem, exits, adj, hist>>

\* process() 103-107: the targets the AdjustFlags instance is built with
AdjustTargets(o) == [subLang |-> "Persian", audioLang |-> "English"]

\* process() 108-111: adjustFlags() is awaited, its value is not read, and
\* "Adjusted flags" is logged
Adjust ==
    /\ pc = "adjust"
    /\ log' = Append(log, "adjust")
    /\ \E inspectOk \in BOOLEAN, editOk \in BOOLEAN :
          /\ ~(files.video.exists /\ files.video.complete) => ~inspectOk
          /\ ~inspectOk => editOk
          /\ LET t == AdjustTargets(opts)
                 r == adjustFlags(files.video.tracks, t.subLang, t.audioLang,
                                  inspectOk, editOk)
             IN /\ files' = [files EXCEPT !.video.tracks = r.tracks]
                /\ adj' = [made |-> TRUE, subLang |-> t.subLang,
                           audioLang |-> t.audioLang, ret |-> BoolStr(r.ret),
                           audio |-> BoolStr(r.audio), sub |-> BoolStr(r.sub),
                           reported |-> TRUE]
    /\ JobReturns("done")
    /\ UNCHANGED <<norm, opts, jobIdx, batch, fin, mergeState, rem, exits, hist>>

Next ==
    \/ SkipPair \/ StartJob \/ BatchDone
    \/ Convert \/ Clean \/ Sync
    \/ MergeEnter \/ R_Lookup \/ R_Inspect \/ R_Remux \/ R_Verify
    \/ R_Unlink \/ R_Rename \/ M_Copy \/ M_Mux
    \/ F_Unlink \/ F_Rename \/ F_UnlinkSub \/ F_Resolve
    \/ MergeReturns \/ ProcessThrows \/ Adjust

Spec == Init /\ [][Next]_vars

----------------------------------------------------------------------------
\* Properties

InLog(x) == \E i \in 1..Len(log) : log[i] = x

Times(x) == Cardinality({i \in 1..Len(log) : log[i] = x})

CurStatus == IF jobIdx = 0 THEN "none" ELSE jobStatus[jobIdx]

Whole(f) == f.exists /\ f.complete

CountLangSubs(tracks, codes) ==
    Cardinality({i \in 1..Len(tracks) : IsLangSub(tracks[i], codes)})

ToolFailed(exit) == exit \in {"exit1", "spawnerr"}

\* C1: in mergeSubtitle the original container at videoPath is unlinked or
\* replaced only after the mux subprocess has exited with code zero; a mux
\* that fails leaves the original untouched.
C1_OriginalKeptUnlessMuxZero ==
    (InLog("m.unlink") \/ InLog("m.rename")) => exits.mux = "ok"

\* the removal has just ended (resolved or rejected) inside mergeSubtitle
RemovalJustEnded ==
    \/ rem.state = "resolved" /\ pc = "m.copy"
    \/ rem.state = "rejected" /\ pc = "awaitMerge"

\* the file operations of mergeSubtitle are over
MergeEnded ==
    \/ fin \in {"done", "dead"}
    \/ mergeState \in {"resolved", "rejected"} /\ fin = "none"

\* C2: when removeSubtitleByLanguage or mergeSubtitle ends, whichever step
\* failed, the video path holds a complete container, the one from before
\* the operation or the new one; it is never missing, empty or partial.
C2_OriginalPathAlwaysWhole ==
    /\ RemovalJustEnded =>
          /\ Whole(files.video)
          /\ files.video.tracks \in
                {hist.pre.tracks,
                 SelectSeq(hist.pre.tracks, LAMBDA t : ~IsLangSub(t, LangCodes))}
    /\ MergeEnded => Whole(files.video)

\* C3: in removeSubtitleByLanguage, when the remux subprocess exits non-zero
\* (or cannot be spawned) or the re-inspection of the temp output still
\* finds a subtitle track of the language, the call rejects and the original
\* is neither unlinked nor replaced: it is the container from before the
\* call (until the normalizer, which the job may go on to, edits its flags).
C3_FailedRemovalKeepsOriginal ==
    (ToolFailed(exits.remux) \/ rem.found > 0) =>
        /\ rem.state = "rejected"
        /\ ~InLog("r.unlink") /\ ~InLog("r.unlink.fail")
        /\ ~InLog("r.rename") /\ ~InLog("r.rename.fail")
        /\ InLog("adjust") \/ files.video = hist.pre

C3_Witness ==
    /\ rem.state = "rejected" /\ rem.fail = "verify" /\ rem.found > 0
    /\ Whole(files.tempR) /\ files.video = hist.pre


\* a step of mergeSubtitle failed: the removal, the copy or the mux
MergeStepFailed ==
    rem.state = "rejected" \/ InLog("m.copy.fail") \/ ToolFailed(exits.mux)

NoSwapInLog ==
    /\ ~InLog("m.unlink") /\ ~InLog("m.unlink.fail")
    /\ ~InLog("m.rename") /\ ~InLog("m.rename.fail")
    /\ ~InLog("m.unlinkSub") /\ ~InLog("m.unlinkSub.fail")

\* C4: a failure of any step of mergeSubtitle (the removal, an unknown
\* language name and a failed removal verification included; the copy; the
\* mux) makes mergeSubtitle reject, and no later step of the merge (copy,
\* mux, swap, subtitle deletion) is performed.
C4_FailedStepAbortsMerge ==
    /\ MergeStepFailed => mergeState = "rejected"
    /\ rem.state = "rejected" =>
          ~InLog("m.copy") /\ ~InLog("m.copy.fail") /\ ~InLog("m.mux") /\ NoSwapInLog
    /\ InLog("m.copy.fail") => ~InLog("m.mux") /\ NoSwapInLog
    /\ ToolFailed(exits.mux) => NoSwapInLog

\* convertSubToUtf8 caught a throw: the subtitle file cannot be read
ConvertThrew == InLog("convert") /\ files.sub = "unreadable"

\* C5: when an enabled convert, clean or sync stage fails (the subprocess
\* exits non-zero or cannot be spawned, or conversion throws), the job ends
\* failed: no later stage is invoked, merge and flag normalization included,
\* and the failed stage is invoked once.
C5_FailedStageEndsJob ==
    /\ ConvertThrew =>
          /\ CurStatus = "failed" /\ Times("convert") = 1
          /\ ~InLog("clean") /\ ~InLog("sync") /\ ~InLog("merge") /\ ~InLog("adjust")
    /\ ToolFailed(exits.clean) =>
          /\ CurStatus = "failed" /\ Times("clean") = 1
          /\ ~InLog("sync") /\ ~InLog("merge") /\ ~InLog("adjust")
    /\ ToolFailed(exits.sync) =>
          /\ CurStatus = "failed" /\ Times("sync") = 1
          /\ ~InLog("merge") /\ ~InLog("adjust")

C5_Witness ==
    /\ exits.sync = "exit1" /\ CurStatus = "failed" /\ pc = "loop"
    /\ InLog("convert") /\ InLog("clean") /\ exits.clean = "ok"

\* C6: a job that fails, by returning or by throwing (a merge that rejects
\* included), never aborts the batch: the driver loop is not left and every
\* later pair is taken.
C6_FailedJobNeverAbortsBatch ==
    \A j \in 1..NumJobs :
        jobStatus[j] \in {"failed", "threw"} =>
            /\ batch # "aborted"
            /\ pc = "exit" => \A k \in (j + 1)..NumJobs : jobStatus[k] # "pending"

\* C7: with conversion enabled, when convertToUtf8 returns false, or when
\* the validity check that follows a stage returns false, the job ends
\* failed and merge and flag normalization are not invoked (nor clean and
\* sync after a failed conversion).
C7_FalseFromConvertOrVerifyFails ==
    /\ (opts.shouldConvert /\ hist.convRet = "false") =>
          /\ CurStatus = "failed"
          /\ ~InLog("clean") /\ ~InLog("sync") /\ ~InLog("merge") /\ ~InLog("adjust")
    /\ hist.verifyFalse =>
          CurStatus = "failed" /\ ~InLog("merge") /\ ~InLog("adjust")

\* C8: the job is reported as flags-adjusted and done only if the
\* normalization succeeded: when adjustAudioFlags or adjustSubtitleFlags
\* returns false, adjustFlags reports failure and the job ends failed.
C8_FlagsAdjustedOnlyOnSuccess ==
    (adj.audio = "false" \/ adj.sub = "false") =>
        adj.ret = "false" /\ ~adj.reported /\ CurStatus # "done"

\* C9: the normalizer process() builds after the merge has the job's own
\* subtitle language and audio language as its targets.
C9_NormalizerUsesJobLanguages ==
    adj.made => adj.subLang = opts.subtitleLang /\ adj.audioLang = opts.audioLang

\* a merge that added its track: the mux exited zero, the swap was done and
\* the promise resolved
MergeSucceeded == mergeState = "resolved" /\ exits.mux = "ok"

\* C10: after a successful mergeSubtitle, also one that follows earlier
\* successful merges of the same language on the same container, the
\* container has exactly one subtitle track of that language.
C10_OneTrackPerLanguage ==
    MergeSucceeded => CountLangSubs(files.video.tracks, LangCodes) = 1

C10_Witness ==
    /\ MergeSucceeded /\ hist.merges = 2
    /\ CountLangSubs(files.video.tracks, LangCodes) = 1


\* the removal read the container (its identify call succeeded)
RemovalInspected == InLog("r.inspect") /\ rem.fail # "inspect"

RemovalCalled == rem.state # "none"

----------------------------------------------------------------------------
\* AdjustFlags.adjustFlags step by step (specification SpecN): one action per
\* external command (identify, edit), as the --adjustFlags command of
\* index.ts runs it on one container, while another process may remux it.

\* How many times another process rewrites the container during a run
MaxExternal == 1

NoTrack == Track(0, "none", "", FALSE, FALSE, "")

NA1 == Track(1, "audio", "eng", TRUE, FALSE, "")
NS1 == Track(1, "subtitles", "per", FALSE, FALSE, "")
NS2 == Track(2, "subtitles", "eng", TRUE, TRUE, "Forced")
NA3 == Track(3, "audio", "eng", FALSE, FALSE, "Commentary")
NS4 == Track(4, "subtitles", "per", TRUE, TRUE, "Forced")
NS5 == Track(5, "subtitles", "eng", TRUE, FALSE, "English")
NA6 == Track(6, "audio", "per", FALSE, FALSE, "")
NA7 == Track(7, "audio", "eng", TRUE, FALSE, "Director COMMENTARY")
NS8 == Track(8, "subtitles", "eng", FALSE, FALSE, "Forced")

\* The containers a normalizer run may find
NormContainers ==
    { <<NA1>>,
      <<NS1, NS2>>,
      <<V1, A_eng, NA3, NS4, NS5>>,
      <<NA6, NA7, NS8, NS5>> }

\* a decision that resets a foreign track only for its forced flag or name
SubtitleDecision_IgnoreDefault(sub, lang) ==
    LET MatchedLang == isLanguageMatch(sub.language, lang)
    IN IF ~MatchedLang /\ (sub.isForced \/ nameContainsForced(sub.name))
       THEN "reset"
       ELSE IF MatchedLang /\ (~sub.isForced \/ ~sub.isDefault)
       THEN "promote"
       ELSE "none"

\* a decision that promotes a matching track whatever its flags
SubtitleDecision_PromoteAlways(sub, lang) ==
    LET MatchedLang == isLanguageMatch(sub.language, lang)
    IN IF ~MatchedLang /\ (sub.isForced \/ sub.isDefault \/ nameContainsForced(sub.name))
       THEN "reset"
       ELSE IF MatchedLang THEN "promote" ELSE "none"

\* the decision of adjustSubtitleFlags for one track of its snapshot
SubtitleDecision(sub, lang) ==
    LET MatchedLang == isLanguageMatch(sub.language, lang)
    IN IF ~MatchedLang /\ (sub.isForced \/ sub.isDefault \/ nameContainsForced(sub.name))
       THEN "reset"
       ELSE IF MatchedLang /\ (~sub.isForced \/ ~sub.isDefault)
       THEN "promote"
       ELSE "none"

\* a decision that promotes a matching audio track whatever its flags
AudioDecision_PromoteAlways(audio, lang) ==
    LET MatchedLang == isLanguageMatch(audio.language, lang)
        isCommentary == isCommentaryTrack(audio.name)
    IN IF ~MatchedLang /\ (isCommentary \/ audio.isDefault \/ audio.isForced)
       THEN "reset"
       ELSE IF MatchedLang /\ ~isCommentary THEN "promote" ELSE "none"

\* the decision of adjustAudioFlags for one track of its snapshot
AudioDecision(audio, lang) ==
    LET MatchedLang == isLanguageMatch(audio.language, lang)
        isCommentary == isCommentaryTrack(audio.name)
    IN IF ~MatchedLang /\ (isCommentary \/ audio.isDefault \/ audio.isForced)
       THEN "reset"
       ELSE IF MatchedLang /\ ~isCommentary /\ (~audio.isDefault \/ ~audio.isForced)
       THEN "promote"
       ELSE "none"

HasUid(tracks, uid) == \E i \in 1..Len(tracks) : tracks[i].uid = uid

TrackOfUid(tracks, uid) ==
    IF HasUid(tracks, uid)
    THEN tracks[CHOOSE i \in 1..Len(tracks) : tracks[i].uid = uid]
    ELSE NoTrack

\* a resolution that falls back to track 0 when the uid is not found
resolveTrackIdByUid_Default0(tracks, uid) ==
    IF HasUid(tracks, uid)
    THEN (CHOOSE i \in 1..Len(tracks) : tracks[i].uid = uid) - 1
    ELSE 0

\* a resolution that looks the uid up in the container as it was when the
\* pass started
resolveTrackIdByUid_Stale(tracks, uid) ==
    IF HasUid(norm.before, uid)
    THEN (CHOOSE i \in 1..Len(norm.before) : norm.before[i].uid = uid) - 1
    ELSE -1

\* resolveTrackIdByUid: metadata.tracks.find(uid)?.id, -1 for undefined
resolveTrackIdByUid(tracks, uid) ==
    IF HasUid(tracks, uid)
    THEN (CHOOSE i \in 1..Len(tracks) : tracks[i].uid = uid) - 1
    ELSE -1

\* an external command of the pass, as issued: what it was, on which uid, for
\* which edit, whether the command succeeded, whether the uid was in the
\* container, the track as read (identify) or as left (edit), and for a
\* resolution the id it returned (-1: undefined, also when it threw)
Cmd(op, uid, kind, ok, found, tr) ==
    [op |-> op, uid |-> uid, kind |-> kind, ok |-> ok, found |-> found, track |-> tr,
     id |-> -1]

NoPend == [kind |-> "none", uid |-> 0]

pvars == <<opts, jobIdx, jobStatus, batch, pc, fin, files, log, mergeState, rem,
           exits, adj, hist>>

\* index.ts 134-139: new AdjustFlags({videoPath, subLang, audioLang})
InitN ==
    /\ opts = [subtitleLang |-> "Persian", audioLang |-> "English",
               shouldConvert |-> TRUE, shouldClean |-> TRUE, shouldSync |-> TRUE,
               keepSubtitle |-> FALSE]
    /\ jobIdx = 0
    /\ jobStatus = [j \in 1..NumJobs |-> "pending"]
    /\ batch = "running" /\ pc = "adjustFlags" /\ fin = "none"
    /\ files = [video |-> Absent, sub |-> "absent", tempR |-> Absent, tempM |-> Absent]
    /\ log = <<>> /\ mergeState = "none" /\ rem = NoRem /\ exits = NoExits
    /\ adj = NoAdj /\ hist = NoHist
    /\ \E c \in NormContainers, sl \in LangNames, al \in LangNames :
          norm = [pc |-> "start", pass |-> "audio", tracks |-> c, before |-> c,
                  subLang |-> sl, audioLang |-> al, snap |-> <<>>, k |-> 0,
                  pend |-> NoPend, cmds |-> <<>>,
                  retAudio |-> "none", retSub |-> "none", ext |-> 0]

PassType == IF norm.pass = "audio" THEN "audio" ELSE "subtitles"

\* an empty track list that counts as success in both passes
EmptyResult_AlwaysTrue(pass) == TRUE

\* `if (tracks.length === 0) return ...`: false for audio, true for subtitles
EmptyResult(pass) == pass # "audio"

\* the pass returns r
PassReturns(n, r) ==
    IF n.pass = "audio"
    THEN [n EXCEPT !.pc = "passEnd", !.retAudio = BoolStr(r), !.pend = NoPend]
    ELSE [n EXCEPT !.pc = "passEnd", !.retSub = BoolStr(r), !.pend = NoPend]

\* getTracks at the start of adjustAudioFlags / adjustSubtitleFlags; an
\* identify call that fails throws into the catch of the pass
N_GetTracks ==
    /\ norm.pc = "start"
    /\ \E ok \in BOOLEAN :
          LET n1 == [norm EXCEPT !.cmds = Append(@, Cmd("getTracks", 0, "none", ok, TRUE, NoTrack))]
              found == TracksOfType(norm.tracks, PassType)
          IN norm' = IF ~ok THEN PassReturns(n1, FALSE)
                     ELSE IF found = <<>> THEN PassReturns(n1, EmptyResult(norm.pass))
                     ELSE [n1 EXCEPT !.snap = found, !.k = 1, !.pc = "track"]
    /\ UNCHANGED pvars

\* the loop head and the two ifs of the loop body, on the snapshot's flags
N_Track ==
    /\ norm.pc = "track"
    /\ norm' =
          IF norm.k > Len(norm.snap) THEN PassReturns(norm, TRUE)
          ELSE LET t == norm.snap[norm.k]
                   d == IF norm.pass = "audio" THEN AudioDecision(t, norm.audioLang)
                        ELSE SubtitleDecision(t, norm.subLang)
               IN IF d = "none" THEN [norm EXCEPT !.k = @ + 1]
                  ELSE [norm EXCEPT !.pend = [kind |-> d, uid |-> t.uid], !.pc = "resolve"]
    /\ UNCHANGED pvars

\* editVideo: resolveTrackIdByUid on a fresh identify call; undefined throws
N_Resolve ==
    /\ norm.pc = "resolve"
    /\ \E ok \in BOOLEAN :
          LET u == norm.pend.uid
              trackId == IF ok THEN resolveTrackIdByUid(norm.tracks, u) ELSE -1
              n1 == [norm EXCEPT !.cmds = Append(@,
                        [Cmd("resolve", u, norm.pend.kind, ok, HasUid(norm.tracks, u),
                             TrackOfUid(norm.tracks, u)) EXCEPT !.id = trackId])]
          IN norm' = IF ~ok \/ trackId = -1
                     THEN PassReturns(n1, FALSE)
                     ELSE [n1 EXCEPT !.pc = "edit"]
    /\ UNCHANGED pvars

\* editVideo: runCommand("mkvpropedit", ...); a failure is caught and logged.
\* The command fails when the uid is no longer in the container.
N_Edit ==
    /\ norm.pc = "edit"
    /\ \E ok \in BOOLEAN :
          /\ ~HasUid(norm.tracks, norm.pend.uid) => ~ok
          /\ LET u == norm.pend.uid
                 after == IF norm.pend.kind = "reset"
                          THEN resetTrackFlags(norm.tracks, u, ok)
                          ELSE setTrackAsDefault(norm.tracks, u, ok)
             IN norm' = [norm EXCEPT
                           !.tracks = after,
                           !.cmds = Append(@, Cmd("edit", u, norm.pend.kind, ok,
                                       HasUid(norm.tracks, u), TrackOfUid(after, u))),
                           !.pc = IF norm.pend.kind = "reset" THEN "track" ELSE "verify",
                           !.k = IF norm.pend.kind = "reset" THEN @ + 1 ELSE @,
                           !.pend = IF norm.pend.kind = "reset" THEN NoPend ELSE @]
    /\ UNCHANGED pvars

\* verifyFlags after setTrackAsDefault; a failed identify call is caught
\* inside verifyFlags and reads as false
N_Verify ==
    /\ norm.pc = "verify"
    /\ \E ok \in BOOLEAN :
          LET u == norm.pend.uid
              n1 == [norm EXCEPT !.cmds = Append(@,
                        Cmd("verify", u, "promote", ok, HasUid(norm.tracks, u),
                            TrackOfUid(norm.tracks, u)))]
          IN norm' = IF ok /\ verifyFlags(norm.tracks, u)
                     THEN [n1 EXCEPT !.k = @ + 1, !.pc = "track", !.pend = NoPend]
                     ELSE PassReturns(n1, FALSE)
    /\ UNCHANGED pvars

\* adjustFlags: adjustSubtitleFlags follows adjustAudioFlags whatever it
\* returned; after both, `return true`
N_NextPass ==
    /\ norm.pc = "passEnd"
    /\ norm' = IF norm.pass = "audio"
               THEN [norm EXCEPT !.pass = "subtitles", !.pc = "start",
                                 !.before = norm.tracks, !.cmds = <<>>,
                                 !.snap = <<>>, !.k = 0]
               ELSE [norm EXCEPT !.pc = "end"]
    /\ UNCHANGED pvars

\* another process remuxes the container without one of its tracks
N_External ==
    /\ norm.pc \in {"start", "track", "resolve", "edit", "verify"}
    /\ norm.ext < MaxExternal
    /\ \E i \in 1..Len(norm.tracks) :
          norm' = [norm EXCEPT !.tracks = DropIds(norm.tracks, {i - 1}),
                               !.ext = @ + 1]
    /\ UNCHANGED pvars

NextN ==
    \/ N_GetTracks \/ N_Track \/ N_Resolve \/ N_Edit \/ N_Verify
    \/ N_NextPass \/ N_External

SpecN == InitN /\ [][NextN]_vars

----------------------------------------------------------------------------
\* Properties of the normalizer (SpecN)

\* what the running (or just ended) pass returned, "none" while it runs
PassRet == IF norm.pass = "audio" THEN norm.retAudio ELSE norm.retSub

PassEnded == norm.pc \in {"passEnd", "end"}

EditsOn(uid) == {i \in 1..Len(norm.cmds) : norm.cmds[i].op = "edit" /\ norm.cmds[i].uid = uid}

AllEdits == {i \in 1..Len(norm.cmds) : norm.cmds[i].op = "edit"}

\* C13: every edit command of a pass comes right after a successful inspection
\* that found the same uid in the container, with no other command of the
\* normalizer in between; an inspection that does not find the uid is the
\* last command of the pass, no edit follows it, and the pass returns false.
C13_EditResolvesUidFirst ==
    norm.pc # "none" =>
        /\ \A i \in AllEdits :
              /\ i > 1
              /\ norm.cmds[i - 1].op = "resolve"
              /\ norm.cmds[i - 1].uid = norm.cmds[i].uid
              /\ norm.cmds[i - 1].ok /\ norm.cmds[i - 1].found
        /\ \A i \in 1..Len(norm.cmds) :
              (norm.cmds[i].op = "resolve" /\ ~norm.cmds[i].found) =>
                  /\ i = Len(norm.cmds)
                  /\ PassEnded /\ PassRet = "false"

C13_Witness ==
    /\ norm.pc = "passEnd" /\ AllEdits # {}
    /\ norm.cmds[Len(norm.cmds)].op = "resolve"
    /\ norm.cmds[Len(norm.cmds)].ok /\ ~norm.cmds[Len(norm.cmds)].found
    /\ PassRet = "false"

\* the re-inspection recorded in a verify command read the track as
\* default and forced
ReadsPromoted(c) == c.ok /\ c.found /\ c.track.isDefault /\ c.track.isForced

\* C14: every promotion edit is followed at once by a re-inspection of the same
\* uid; when that re-inspection fails, misses the track or reads a flag that
\* is not true, it is the last command of the pass (no further track, no
\* second edit) and the pass returns false; no uid is promoted twice.
C14_PromotionVerifiedOrFalse ==
    norm.pc # "none" =>
        /\ \A i \in AllEdits :
              norm.cmds[i].kind = "promote" =>
                  IF i = Len(norm.cmds)
                  THEN norm.pc = "verify" /\ norm.pend.uid = norm.cmds[i].uid
                  ELSE /\ norm.cmds[i + 1].op = "verify"
                       /\ norm.cmds[i + 1].uid = norm.cmds[i].uid
        /\ \A i \in 1..Len(norm.cmds) :
              (norm.cmds[i].op = "verify" /\ ~ReadsPromoted(norm.cmds[i])) =>
                  /\ i = Len(norm.cmds)
                  /\ PassEnded /\ PassRet = "false"
        /\ \A i, j \in AllEdits :
              (norm.cmds[i].kind = "promote" /\ norm.cmds[j].kind = "promote"
                  /\ norm.cmds[i].uid = norm.cmds[j].uid) => i = j

C14_Witness ==
    /\ norm.pc = "passEnd" /\ PassRet = "false" /\ Len(norm.cmds) > 1
    /\ norm.cmds[Len(norm.cmds)].op = "verify"
    /\ norm.cmds[Len(norm.cmds)].ok /\ norm.cmds[Len(norm.cmds)].found
    /\ ~norm.cmds[Len(norm.cmds)].track.isForced
    /\ norm.cmds[Len(norm.cmds) - 1].op = "edit"
    /\ ~norm.cmds[Len(norm.cmds) - 1].ok
    /\ norm.k < Len(norm.snap)

\* no audio track of the container the pass started on has the target language
NoAudioMatches ==
    \A i \in 1..Len(norm.before) :
        norm.before[i].type = "audio" =>
            ~isLanguageMatch(norm.before[i].language, norm.audioLang)

\* C15: when no audio track matches the target audio language,
\* adjustAudioFlags returns false.
C15_NoMatchingAudioReturnsFalse ==
    (norm.pc = "passEnd" /\ norm.pass = "audio" /\ NoAudioMatches) =>
        norm.retAudio = "false"

SameFlags(a, b) == a.isDefault = b.isDefault /\ a.isForced = b.isForced

SubMatches(t) == isLanguageMatch(t.language, norm.subLang)

\* the subtitle tracks that do not match the target and are default, in the
\* container the subtitle pass started on
NonMatchingDefaultSubs ==
    {i \in 1..Len(norm.before) :
        /\ norm.before[i].type = "subtitles"
        /\ ~SubMatches(norm.before[i])
        /\ norm.before[i].isDefault}

TheNonMatchingDefault == norm.before[CHOOSE i \in NonMatchingDefaultSubs : TRUE]

SubtitlePassEnded == norm.pass = "subtitles" /\ PassEnded

AllCmdsOk == \A i \in 1..Len(norm.cmds) : norm.cmds[i].ok

PromotedSubs ==
    {i \in 1..Len(norm.before) :
        /\ norm.before[i].type = "subtitles"
        /\ SubMatches(norm.before[i])
        /\ norm.before[i].isDefault /\ norm.before[i].isForced}

\* every subtitle track is where the rule table wants it when the pass starts
SubsCanonical ==
    \A i \in 1..Len(norm.before) :
        norm.before[i].type = "subtitles" =>
            IF SubMatches(norm.before[i])
            THEN norm.before[i].isDefault /\ norm.before[i].isForced
            ELSE /\ ~norm.before[i].isDefault /\ ~norm.before[i].isForced
                 /\ ~nameContainsForced(norm.before[i].name)

\* C17 as stated: a container with a matching subtitle track that is already
\* default and forced gets zero edit calls from adjustSubtitleFlags.
C17_Original ==
    (norm.pc # "none" /\ norm.pass = "subtitles" /\ PromotedSubs # {}) =>
        AllEdits = {}

\* C17: adjustSubtitleFlags issues no edit for a matching subtitle track that
\* is already default and forced, and no edit at all when every subtitle
\* track is already as the rule table wants it.
C17_NoEditWhenAlreadySet ==
    (norm.pc # "none" /\ norm.pass = "subtitles") =>
        /\ \A i \in PromotedSubs : EditsOn(norm.before[i].uid) = {}
        /\ SubsCanonical => AllEdits = {}

\* the call ran to its end over a matching default+forced track, editing
\* another track but not that one
C17_Witness ==
    /\ SubtitlePassEnded /\ PassRet = "true" /\ norm.ext = 0
    /\ PromotedSubs # {} /\ AllEdits # {}
    /\ \A i \in PromotedSubs : EditsOn(norm.before[i].uid) = {}

\* the successful reset edits of the subtitle pass
SubResets ==
    {i \in AllEdits : norm.pass = "subtitles" /\ norm.cmds[i].kind = "reset"
                        /\ norm.cmds[i].ok}

\* C18 as stated: a reset of a non-matching subtitle track sets default and
\* forced to false and leaves the name the track had.
C18_Original ==
    \A i \in SubResets :
        /\ ~norm.cmds[i].track.isDefault /\ ~norm.cmds[i].track.isForced
        /\ norm.cmds[i].track.name = TrackOfUid(norm.before, norm.cmds[i].uid).name

\* C18: a reset by adjustSubtitleFlags is issued only for a non-matching
\* subtitle track that was default, forced or named "forced", and sets its
\* default and forced flags to false and its name to the empty string; type,
\* language and uid stay.
C18_ResetClearsName ==
    \A i \in SubResets :
        LET t == norm.cmds[i].track
            b == TrackOfUid(norm.before, norm.cmds[i].uid)
        IN /\ b.type = "subtitles" /\ ~SubMatches(b)
           /\ b.isDefault \/ b.isForced \/ nameContainsForced(b.name)
           /\ ~t.isDefault /\ ~t.isForced /\ t.name = ""
           /\ t.type = b.type /\ t.language = b.language /\ t.uid = b.uid

\* a track named "English" was reset and the container now holds it unnamed
C18_Witness ==
    \E i \in SubResets :
        /\ TrackOfUid(norm.before, norm.cmds[i].uid).name = "English"
        /\ HasUid(norm.tracks, norm.cmds[i].uid)
        /\ TrackOfUid(norm.tracks, norm.cmds[i].uid).name = ""

\* the subtitle pass started on tracks [uid 1: per] and [uid 2: eng, default,
\* forced, "Forced"] with target Persian
TwoTrackScenario == norm.before = <<NS1, NS2>> /\ norm.subLang = "Persian"

\* C19: every edit that succeeds leaves the track with default, forced and
\* name all set: true, true, "Forced" for a promotion and false, false, ""
\* for a demotion; on the two-track scenario, with every command succeeding
\* and nobody else touching the container, adjustSubtitleFlags returns true
\* and leaves uid 1 true/true/"Forced" and uid 2 false/false/"".
C19_EditsSetName ==
    norm.pc # "none" =>
        /\ \A i \in AllEdits :
              norm.cmds[i].ok =>
                  LET t == norm.cmds[i].track
                  IN IF norm.cmds[i].kind = "promote"
                     THEN t.isDefault /\ t.isForced /\ t.name = "Forced"
                     ELSE ~t.isDefault /\ ~t.isForced /\ t.name = ""
        /\ (SubtitlePassEnded /\ TwoTrackScenario /\ AllCmdsOk /\ norm.ext = 0) =>
              /\ PassRet = "true"
              /\ norm.tracks = <<Track(1, "subtitles", "per", TRUE, TRUE, "Forced"),
                                 Track(2, "subtitles", "eng", FALSE, FALSE, "")>>

C19_Witness ==
    /\ SubtitlePassEnded /\ TwoTrackScenario /\ AllCmdsOk /\ norm.ext = 0
    /\ Cardinality(AllEdits) = 2
    /\ TrackOfUid(norm.tracks, 1).name = "Forced"
    /\ TrackOfUid(norm.tracks, 2).name = ""

\* the track names of the model that contain "commentary" in some letter case
CommentaryNames == {"commentary", "Commentary", "Director COMMENTARY"}

\* the audio tracks of the target language named as commentary, in the
\* container the audio pass started on
MatchingCommentary ==
    {i \in 1..Len(norm.before) :
        /\ norm.before[i].type = "audio"
        /\ isLanguageMatch(norm.before[i].language, norm.audioLang)
        /\ norm.before[i].name \in CommentaryNames}

\* C20: adjustAudioFlags issues no edit for an audio track of the target
\* language whose name contains "commentary" in any letter case, and the
\* track, while in the container, keeps its default flag, forced flag and
\* name.
C20_CommentaryNeverPromoted ==
    (norm.pc # "none" /\ norm.pass = "audio") =>
        \A i \in MatchingCommentary :
            /\ EditsOn(norm.before[i].uid) = {}
            /\ HasUid(norm.tracks, norm.before[i].uid) =>
                  TrackOfUid(norm.tracks, norm.before[i].uid) = norm.before[i]

\* the audio pass ended after editing another track and leaving a matching
\* commentary track that is neither default nor forced
C20_Witness ==
    /\ norm.pc = "passEnd" /\ norm.pass = "audio" /\ norm.retAudio = "true"
    /\ AllEdits # {}
    /\ \E i \in MatchingCommentary :
          /\ ~norm.before[i].isDefault
          /\ TrackOfUid(norm.tracks, norm.before[i].uid) = norm.before[i]

LastCmd(n) == n.cmds[Len(n.cmds)]

\* C21: a resolution whose identify call succeeds returns undefined (and does
\* not throw) when the uid is not in the container at that moment, and
\* otherwise returns the id the track of that uid has in the container at
\* that moment, whatever the container was when the pass started.
C21_ResolveIsFresh ==
    [][(norm.pc = "resolve" /\ norm'.pc # "resolve" /\ LastCmd(norm').ok) =>
          /\ LastCmd(norm').op = "resolve" /\ LastCmd(norm').uid = norm.pend.uid
          /\ IF HasUid(norm.tracks, norm.pend.uid)
             THEN /\ LastCmd(norm').id >= 0
                  /\ norm.tracks[LastCmd(norm').id + 1].uid = norm.pend.uid
             ELSE LastCmd(norm').id = -1]_vars

\* a resolution returned an id that is not the one the uid had when the pass
\* started
C21_Witness ==
    /\ norm.pc = "edit" /\ norm.ext > 0
    /\ LastCmd(norm).op = "resolve" /\ LastCmd(norm).ok /\ LastCmd(norm).id >= 0
    /\ norm.before[LastCmd(norm).id + 1].uid # norm.pend.uid

----------------------------------------------------------------------------
\* Properties of the pipeline (Spec), continued

Stages == {"convert", "clean", "sync", "merge", "adjust"}

StageRank(x) ==
    CASE x = "convert" -> 1 [] x = "clean" -> 2 [] x = "sync" -> 3
      [] x = "merge" -> 4 [] x = "adjust" -> 5 [] OTHER -> 0

\* the option that switches a stage on; merge and normalization have none
StageOn(x) ==
    CASE x = "convert" -> opts.shouldConvert
      [] x = "clean" -> opts.shouldClean
      [] x = "sync" -> opts.shouldSync
      [] OTHER -> TRUE

\* the stages invoked so far in the running job, in order
StagesRun == SelectSeq(log, LAMBDA x : x \in Stages)

\* C22: in one job the stages invoked come in the order convert, clean, sync,
\* merge, normalization and none twice; a stage whose option is false is
\* never invoked; a later stage is invoked only after every earlier stage
\* whose option is true, so a skipped stage counts as done; and a job that
\* ends as failed does so in a stage whose option is true.
C22_StagesInOrderSkipsAdvance ==
    /\ \A i, j \in 1..Len(StagesRun) :
          i < j => StageRank(StagesRun[i]) < StageRank(StagesRun[j])
    /\ \A x \in Stages : InLog(x) => StageOn(x)
    /\ \A x, y \in Stages :
          (InLog(y) /\ StageRank(x) < StageRank(y) /\ StageOn(x)) => InLog(x)
    /\ CurStatus = "failed" =>
          /\ StagesRun # <<>>
          /\ StagesRun[Len(StagesRun)] \in {"convert", "clean", "sync"}

\* clean is switched off and the job went from convert over sync to the merge
C22_Witness ==
    /\ ~opts.shouldClean /\ opts.shouldConvert /\ opts.shouldSync
    /\ StagesRun = <<"convert", "sync", "merge", "adjust">>
    /\ CurStatus = "done"

\* C23: mergeSubtitle tries to unlink the subtitle file only when
\* keepSubtitle is false; with keepSubtitle true the subtitle path holds,
\* from the call of mergeSubtitle on and however the merge ends, the file it
\* held when mergeSubtitle was called.
C23_KeptSubtitleUntouched ==
    /\ (InLog("m.unlinkSub") \/ InLog("m.unlinkSub.fail")) => ~opts.keepSubtitle
    /\ (opts.keepSubtitle /\ InLog("merge")) =>
          /\ files.sub = hist.preSub
          /\ files.sub # "absent"

\* a merge with keepSubtitle ran its swap to the end, the subtitle is there
C23_Witness ==
    /\ opts.keepSubtitle /\ fin = "done" /\ InLog("m.rename")
    /\ mergeState = "resolved"
    /\ files.sub = hist.preSub /\ files.sub = "valid"

----------------------------------------------------------------------------
\* Properties of the normalizer (SpecN), continued

\* the container the pass started on has no track of the type of the pass
NoneOfPassType == TracksOfType(norm.before, PassType) = <<>>

\* C24: on a container with no subtitle track adjustSubtitleFlags issues no
\* edit and, its identify call succeeding, returns true; on a container with
\* no audio track adjustAudioFlags issues no edit and returns false. Either
\* pass ends after its one identify call.
C24_EmptyTrackLists ==
    (norm.pc # "none" /\ NoneOfPassType) =>
        /\ AllEdits = {}
        /\ PassEnded =>
              /\ Len(norm.cmds) = 1 /\ norm.cmds[1].op = "getTracks"
              /\ norm.pass = "audio" => norm.retAudio = "false"
              /\ (norm.pass = "subtitles" /\ norm.cmds[1].ok) => norm.retSub = "true"

\* the subtitle pass ended with true on a container that has audio only
C24_Witness ==
    /\ SubtitlePassEnded /\ NoneOfPassType /\ norm.before # <<>>
    /\ norm.cmds[1].ok /\ norm.retSub = "true" /\ AllEdits = {}

----------------------------------------------------------------------------
\* Track uids through the inspector (specification SpecU): what
\* getMKVmetadata stores for the uids mkvmerge -J prints, and how
\* resolveTrackIdByUid, verifyFlags and editVideo use the stored value.
\* Widths are scaled down: a uid has UidBits bits where the container format
\* has 64, and a JSON number keeps MantissaBits significant bits where a
\* double keeps 53, so that uids above 2^MantissaBits exist in the model.

UidBits == 5

MantissaBits == 3

RECURSIVE Pow2(_)
Pow2(n) == IF n = 0 THEN 1 ELSE 2 * Pow2(n - 1)

RECURSIVE BitLen(_)
BitLen(n) == IF n = 0 THEN 0 ELSE 1 + BitLen(n \div 2)

\* JSON.parse of a number literal: the nearest number with MantissaBits
\* significant bits, ties to the even mantissa
ToDouble(n) ==
    IF BitLen(n) <= MantissaBits THEN n
    ELSE LET step == Pow2(BitLen(n) - MantissaBits)
             q == n \div step
             r == n % step
         IN IF 2 * r < step THEN q * step
            ELSE IF 2 * r > step THEN (q + 1) * step
            ELSE IF q % 2 = 0 THEN q * step ELSE (q + 1) * step

\* an inspector that parses the uid as the JSON number it is printed as
ParseUid_AsNumber(n) == [str |-> FALSE, val |-> ToDouble(n)]

\* stdout.replace(/"uid"\s*:\s*(\d+)/g, `"uid": "$1"`) then JSON.parse: the
\* uid is the string of the digits printed
ParseUid(n) == [str |-> TRUE, val |-> n]

\* getMKVmetadata on a container whose tracks have the uids `reported`
UidsOf(reported) == [i \in 1..Len(reported) |-> ParseUid(reported[i])]

\* tracks.find((t) => t.properties.uid === uid): the index of the first
\* track whose stored uid is strictly equal, 0 for undefined
FindByUid(meta, uid) ==
    IF \E i \in 1..Len(meta) : meta[i] = uid
    THEN CHOOSE i \in 1..Len(meta) :
            meta[i] = uid /\ \A j \in 1..(i - 1) : meta[j] # uid
    ELSE 0

\* `track:=${trackUid}`: the digits the selector of the edit command carries
SelectorOf(uid) == uid.val

\* mkvpropedit --edit track:=<uid>: the track with that uid, 0 if none
EditedTrack(reported, selector) ==
    IF \E i \in 1..Len(reported) : reported[i] = selector
    THEN CHOOSE i \in 1..Len(reported) : reported[i] = selector
    ELSE 0

\* a container with two tracks of distinct uids; the pass is about to read it
InitU ==
    /\ opts = [subtitleLang |-> "Persian", audioLang |-> "English",
               shouldConvert |-> TRUE, shouldClean |-> TRUE, shouldSync |-> TRUE,
               keepSubtitle |-> FALSE]
    /\ jobIdx = 0
    /\ jobStatus = [j \in 1..NumJobs |-> "pending"]
    /\ batch = "running" /\ pc = "adjustFlags" /\ fin = "none"
    /\ files = [video |-> Absent, sub |-> "absent", tempR |-> Absent, tempM |-> Absent]
    /\ log = <<>> /\ mergeState = "none" /\ rem = NoRem /\ exits = NoExits
    /\ adj = NoAdj /\ hist = NoHist
    /\ \E a, b \in 0..(Pow2(UidBits) - 1) :
          /\ a # b
          /\ norm = [pc |-> "u.getTracks", reported |-> <<a, b>>, snap |-> <<>>,
                     k |-> 0, id |-> -1, selector |-> -1, edited |-> 0, verified |-> 0]

\* getTracks: the uids of the snapshot the loop runs over
U_GetTracks ==
    /\ norm.pc = "u.getTracks"
    /\ norm' = [norm EXCEPT !.snap = UidsOf(norm.reported), !.pc = "u.track"]
    /\ UNCHANGED pvars

\* the loop reaches a track that needs an edit
U_Track ==
    /\ norm.pc = "u.track"
    /\ \E k \in 1..Len(norm.snap) :
          norm' = [norm EXCEPT !.k = k, !.pc = "u.resolve"]
    /\ UNCHANGED pvars

\* resolveTrackIdByUid(sub.properties.uid) on a fresh getMKVmetadata
U_Resolve ==
    /\ norm.pc = "u.resolve"
    /\ norm' = [norm EXCEPT
                  !.id = FindByUid(UidsOf(norm.reported), norm.snap[norm.k]) - 1,
                  !.pc = "u.edit"]
    /\ UNCHANGED pvars

\* runCommand("mkvpropedit", [..., `track:=${trackUid}`, ...])
U_Edit ==
    /\ norm.pc = "u.edit"
    /\ norm' = [norm EXCEPT
                  !.selector = SelectorOf(norm.snap[norm.k]),
                  !.edited = EditedTrack(norm.reported, SelectorOf(norm.snap[norm.k])),
                  !.pc = "u.verify"]
    /\ UNCHANGED pvars

\* verifyFlags(sub.properties.uid): the track it reads the flags of
U_Verify ==
    /\ norm.pc = "u.verify"
    /\ norm' = [norm EXCEPT
                  !.verified = FindByUid(UidsOf(norm.reported), norm.snap[norm.k]),
                  !.pc = "u.end"]
    /\ UNCHANGED pvars

NextU == U_GetTracks \/ U_Track \/ U_Resolve \/ U_Edit \/ U_Verify

SpecU == InitU /\ [][NextU]_vars

----------------------------------------------------------------------------
\* Properties of the pipeline (Spec): jobs and the promise of mergeSubtitle

\* a file operation of the .finally callback is still to run
SwapInFlight == fin \in {"unlink", "rename", "unlinkSub", "resolve"}

\* C26: the driver moves to the next pair only from its loop, when no file
\* operation of the previous job is still to run and no mergeSubtitle
\* promise is pending: operations of two jobs never overlap.
C26_JobsOneAtATime ==
    [][jobIdx' # jobIdx =>
          /\ pc = "loop"
          /\ ~SwapInFlight /\ fin # "dead"
          /\ mergeState # "pending"
          /\ jobIdx > 0 => jobStatus[jobIdx] \in {"done", "failed", "skipped"}]_vars

\* the second job runs on the container the first job merged into
C26_Witness ==
    /\ jobIdx = 2 /\ jobStatus = <<"done", "running">>
    /\ hist.merges = 1 /\ pc = "m.mux" /\ fin = "none"

\* C27: a temp file from before the job never becomes the video: the remux
\* that exits zero and the copy that succeeds overwrite what was at their
\* temp path, and no content written before the job reaches the video path,
\* so what the operations leave there does not depend on the stale file.
C27_StaleTempNeverUsed ==
    /\ ~files.video.stale
    /\ (InLog("r.remux") /\ exits.remux = "ok") => ~files.tempR.stale
    /\ InLog("m.copy") => ~files.tempM.stale
    /\ (RemovalJustEnded /\ rem.state = "resolved"
          /\ (hist.preTemp.stale \/ InLog("r.rename"))) =>
          files.video.tracks \in
             {hist.pre.tracks,
              SelectSeq(hist.pre.tracks, LAMBDA t : ~IsLangSub(t, LangCodes))}

\* a job that found stale files at both temp paths removed the old track and
\* merged the new one
C27_Witness ==
    /\ hist.preTemp.stale /\ hist.preTemp.tracks = StaleTracks
    /\ InLog("r.rename") /\ InLog("m.copy") /\ InLog("m.rename")
    /\ fin = "done" /\ mergeState = "resolved" /\ exits.mux = "ok"
    /\ Whole(files.video) /\ CountLangSubs(files.video.tracks, LangCodes) = 1
    /\ files.tempR = Absent /\ files.tempM = Absent

\* a file operation of the .finally callback has not finished yet
FileOpsToRun == fin \in {"unlink", "rename", "unlinkSub"}

\* C28: once the promise of mergeSubtitle has settled and the caller has
\* resumed, no file operation of that merge is still to run.
C28_SettledAfterFileOps ==
    (mergeState \in {"resolved", "rejected"} /\ pc # "awaitMerge") => ~FileOpsToRun

\* the pipeline under weak fairness: a step that can be taken is taken
SpecFair == Spec /\ WF_vars(Next)

\* C29: once the mux subprocess has exited (the .finally callback is about
\* to run), the promise of mergeSubtitle eventually settles.
C29_MergeEventuallySettles ==
    [](fin = "unlink" => <>(mergeState \in {"resolved", "rejected"}))

----------------------------------------------------------------------------
\* Properties of the normalizer (SpecN): the state adjustSubtitleFlags leaves

\* C30: when adjustSubtitleFlags has returned true (nobody else having
\* touched the container), every subtitle track of the target language is
\* default and forced and no other subtitle track is default or forced.
C30_TrueMeansCanonical ==
    (SubtitlePassEnded /\ norm.retSub = "true" /\ norm.ext = 0) =>
        \A i \in 1..Len(norm.tracks) :
            norm.tracks[i].type = "subtitles" =>
                IF SubMatches(norm.tracks[i])
                THEN norm.tracks[i].isDefault /\ norm.tracks[i].isForced
                ELSE ~norm.tracks[i].isDefault /\ ~norm.tracks[i].isForced

----------------------------------------------------------------------------
\* Properties of the pipeline (Spec): the subtitle file after a merge

\* C31: mergeSubtitle unlinks the subtitle file only after a mux that exited
\* zero, with the merged container at the video path; after a failed merge
\* the subtitle file is still there.
C31_SubtitleKeptOnFailure ==
    /\ InLog("m.unlinkSub") =>
          /\ exits.mux = "ok"
          /\ InLog("adjust") \/
                files.video = Container(MuxOutput(hist.pre.tracks,
                                  MergeLanguage(opts.subtitleLang), opts.subtitleLang))
                \/ files.video = Container(MuxOutput(
                                  SelectSeq(hist.pre.tracks, LAMBDA t : ~IsLangSub(t, LangCodes)),
                                  MergeLanguage(opts.subtitleLang), opts.subtitleLang))
    /\ (InLog("merge") /\ (mergeState = "rejected" \/ ToolFailed(exits.mux))) =>
          files.sub # "absent"

----------------------------------------------------------------------------
\* The paths the normalizer hands to its tools (specification SpecP): a path
\* is absolute or relative, has directory components and a base name; the
\* tools resolve a relative path against the working directory.

Path(abs, dir, base) == [abs |-> abs, dir |-> dir, base |-> base]

\* the videoPath values a caller may build: join(VIDEO_DIR, match) with
\* VIDEO_DIR "./", a relative or an absolute directory, and the bare name
VideoPaths ==
    {Path(a[1], a[2], b) :
        a \in {<<FALSE, <<>>>>, <<FALSE, <<"videos">>>>, <<TRUE, <<"media">>>>,
               <<TRUE, <<"work">>>>},
        b \in {"a.mkv", "b.mkv", "c.mkv"}}

\* the working directories the program may be started in
WorkDirs == {<<"work">>, <<"media">>, <<"work", "videos">>}

\* the file a tool opens for a path argument
Resolve(cwd, p) == (IF p.abs THEN p.dir ELSE cwd \o p.dir) \o <<p.base>>

\* parse(this.videoPath).base: the last component alone, a relative path
ParseBase(p) == Path(FALSE, <<>>, p.base)

\* getMKVmetadata: mkvmerge -J "${parse(this.videoPath).base}"
MetadataPath(videoPath) == ParseBase(videoPath)

\* editVideo: mkvpropedit `${this.videoPath}` ...
EditPath(videoPath) == videoPath

InitP ==
    /\ opts = [subtitleLang |-> "Persian", audioLang |-> "English",
               shouldConvert |-> TRUE, shouldClean |-> TRUE, shouldSync |-> TRUE,
               keepSubtitle |-> FALSE]
    /\ jobIdx = 0
    /\ jobStatus = [j \in 1..NumJobs |-> "pending"]
    /\ batch = "running" /\ pc = "adjustFlags" /\ fin = "none"
    /\ files = [video |-> Absent, sub |-> "absent", tempR |-> Absent, tempM |-> Absent]
    /\ log = <<>> /\ mergeState = "none" /\ rem = NoRem /\ exits = NoExits
    /\ adj = NoAdj /\ hist = NoHist
    /\ \E cwd \in WorkDirs, vp \in VideoPaths :
          norm = [pc |-> "p.getTracks", cwd |-> cwd, videoPath |-> vp,
                  inspected |-> {}, edited |-> {}]

\* an identify call of the normalizer: the file it reads
P_Inspect(at, next) ==
    /\ norm.pc = at
    /\ norm' = [norm EXCEPT
                  !.inspected = @ \cup {Resolve(norm.cwd, MetadataPath(norm.videoPath))},
                  !.pc = next]
    /\ UNCHANGED pvars

P_GetTracks == P_Inspect("p.getTracks", "p.resolve")

P_Resolve == P_Inspect("p.resolve", "p.edit")

\* the edit command: the file it writes
P_Edit ==
    /\ norm.pc = "p.edit"
    /\ norm' = [norm EXCEPT
                  !.edited = @ \cup {Resolve(norm.cwd, EditPath(norm.videoPath))},
                  !.pc = "p.verify"]
    /\ UNCHANGED pvars

P_Verify == P_Inspect("p.verify", "p.end")

NextP == P_GetTracks \/ P_Resolve \/ P_Edit \/ P_Verify

SpecP == InitP /\ [][NextP]_vars

\* C32: every file the normalizer inspects is the file its edit command
\* writes, for every videoPath and working directory.
C32_InspectsWhatItEdits ==
    (norm.pc = "p.end") => norm.inspected = norm.edited

----------------------------------------------------------------------------
\* adjustFlags called again on the same container (specification SpecI): the
\* steps of SpecN, with nobody else touching the container, and a caller
\* that runs adjustFlags again when it has returned.

\* How many times adjustFlags is run on the container
MaxRuns == 2

CmdsOk(cmds) == \A i \in 1..Len(cmds) : cmds[i].ok

EditsOk(cmds) == \A i \in 1..Len(cmds) : cmds[i].op = "edit" => cmds[i].ok

NumEdits(cmds) == Cardinality({i \in 1..Len(cmds) : cmds[i].op = "edit"})

\* what the run has issued so far, the running pass included
NoRun == [ok |-> TRUE, editsOk |-> TRUE, edits |-> 0]

InitI ==
    /\ opts = [subtitleLang |-> "Persian", audioLang |-> "English",
               shouldConvert |-> TRUE, shouldClean |-> TRUE, shouldSync |-> TRUE,
               keepSubtitle |-> FALSE]
    /\ jobIdx = 0
    /\ jobStatus = [j \in 1..NumJobs |-> "pending"]
    /\ batch = "running" /\ pc = "adjustFlags" /\ fin = "none"
    /\ files = [video |-> Absent, sub |-> "absent", tempR |-> Absent, tempM |-> Absent]
    /\ log = <<>> /\ mergeState = "none" /\ rem = NoRem /\ exits = NoExits
    /\ adj = NoAdj /\ hist = NoHist
    /\ \E c \in NormContainers, sl \in LangNames, al \in LangNames :
          norm = [pc |-> "start", pass |-> "audio", tracks |-> c, before |-> c,
                  subLang |-> sl, audioLang |-> al, snap |-> <<>>, k |-> 0,
                  pend |-> NoPend, cmds |-> <<>>,
                  retAudio |-> "none", retSub |-> "none", ext |-> 0,
                  run |-> 1, this |-> NoRun, prev |-> NoRun, atStart |-> c]

\* adjustFlags: the pass that ended is added to what the run has issued, then
\* adjustSubtitleFlags follows adjustAudioFlags, or adjustFlags returns
I_NextPass ==
    /\ norm.pc = "passEnd"
    /\ LET n1 == [norm EXCEPT !.this = [ok |-> @.ok /\ CmdsOk(norm.cmds),
                                        editsOk |-> @.editsOk /\ EditsOk(norm.cmds),
                                        edits |-> @.edits + NumEdits(norm.cmds)]]
       IN norm' = IF norm.pass = "audio"
                  THEN [n1 EXCEPT !.pass = "subtitles", !.pc = "start",
                                  !.before = norm.tracks, !.cmds = <<>>,
                                  !.snap = <<>>, !.k = 0]
                  ELSE [n1 EXCEPT !.pc = "end"]
    /\ UNCHANGED pvars

\* `await adjustFlags.adjustFlags()` once more, same instance, same file
I_Again ==
    /\ norm.pc = "end" /\ norm.run < MaxRuns
    /\ norm' = [norm EXCEPT !.run = @ + 1, !.prev = norm.this, !.this = NoRun,
                            !.atStart = norm.tracks, !.before = norm.tracks,
                            !.pass = "audio", !.pc = "start", !.cmds = <<>>,
                            !.snap = <<>>, !.k = 0,
                            !.retAudio = "none", !.retSub = "none"]
    /\ UNCHANGED pvars

NextI ==
    \/ N_GetTracks \/ N_Track \/ N_Resolve \/ N_Edit \/ N_Verify
    \/ I_NextPass \/ I_Again

SpecI == InitI /\ [][NextI]_vars

\* the run has issued no edit, the running pass included, and the container
\* is as the run found it
RunIsNoOp ==
    /\ norm.this.edits = 0 /\ AllEdits = {}
    /\ norm.pc \notin {"resolve", "edit", "verify"}
    /\ norm.tracks = norm.atStart

\* C33 as stated: a run of adjustFlags that follows a run in which every
\* edit command succeeded issues no edit and changes no track.
C33_Original ==
    (norm.pc # "none" /\ norm.run > 1 /\ norm.prev.editsOk) => RunIsNoOp

\* C33: a run of adjustFlags that follows a run in which every identify and
\* every edit command succeeded issues no edit and leaves every track's
\* flags and name as they were.
C33_SecondRunIsNoOp ==
    (norm.pc # "none" /\ norm.run > 1 /\ norm.prev.ok) => RunIsNoOp

\* the first run edited tracks, every command succeeding, and the second run
\* went through both passes without an edit
C33_Witness ==
    /\ norm.run = 2 /\ norm.pc = "end" /\ norm.prev.ok /\ norm.prev.edits > 1
    /\ norm.this.edits = 0 /\ norm.this.ok /\ norm.tracks = norm.atStart
    /\ norm.retSub = "true"

----------------------------------------------------------------------------
\* runCommand (specification SpecR): the promise built around one spawned
\* child process, and the child's events arriving in any order.

ExitCodes == {0, 1, 2}

\* how the child process ends: it exits with a code, it is killed by a
\* signal (the code is null), it cannot be spawned (error event, and a
\* negative code on the events that follow), or spawn itself throws
Outcomes == {"exit", "signal", "spawnFail", "throws"}

\* the events the child emits, by outcome, before the optional ones
BaseEvents(outcome) ==
    CASE outcome = "exit" -> {{"exit", "close"}}
      [] outcome = "signal" -> {{"exit", "close"}}
      [] outcome = "spawnFail" -> {{"error"}, {"error", "close"}, {"error", "exit", "close"}}
      [] outcome = "throws" -> {{}}

\* the promise is still to be settled by its first resolve or reject
NoPromise == [state |-> "pending", calls |-> 0, settles |-> 0]

\* resolve() / reject() of the promise: the first call settles it, any later
\* call has no effect
Settle(p, how) ==
    [state |-> IF p.state = "pending" THEN how ELSE p.state,
     calls |-> p.calls + 1,
     settles |-> IF p.state = "pending" THEN p.settles + 1 ELSE p.settles]

\* `code === 0` in the close and exit handlers
CodeIsZero(n) == n.outcome = "exit" /\ n.code = 0

InitR ==
    /\ opts = [subtitleLang |-> "Persian", audioLang |-> "English",
               shouldConvert |-> TRUE, shouldClean |-> TRUE, shouldSync |-> TRUE,
               keepSubtitle |-> FALSE]
    /\ jobIdx = 0
    /\ jobStatus = [j \in 1..NumJobs |-> "pending"]
    /\ batch = "running" /\ pc = "runCommand" /\ fin = "none"
    /\ files = [video |-> Absent, sub |-> "absent", tempR |-> Absent, tempM |-> Absent]
    /\ log = <<>> /\ mergeState = "none" /\ rem = NoRem /\ exits = NoExits
    /\ adj = NoAdj /\ hist = NoHist
    /\ \E o \in Outcomes, c \in ExitCodes, extra \in SUBSET {"error", "disconnect"} :
       \E base \in BaseEvents(o) :
          /\ o # "exit" => c = 1
          /\ o = "throws" => extra = {}
          /\ norm = [pc |-> "c.spawn", outcome |-> o, code |-> c,
                     pending |-> base \cup extra, delivered |-> <<>>,
                     promise |-> NoPromise]

\* the promise executor: spawn returns the child and the four handlers are
\* registered, or spawn throws and the executor's exception rejects
R_Spawn ==
    /\ norm.pc = "c.spawn"
    /\ norm' = IF norm.outcome = "throws"
               THEN [norm EXCEPT !.pc = "c.events",
                                 !.promise = Settle(@, "rejected")]
               ELSE [norm EXCEPT !.pc = "c.events"]
    /\ UNCHANGED pvars

\* one of the child's events reaches its handler
Deliver(ev, how) ==
    /\ norm.pc = "c.events" /\ ev \in norm.pending
    /\ norm' = [norm EXCEPT !.pending = @ \ {ev},
                            !.delivered = Append(@, ev),
                            !.promise = Settle(@, how)]
    /\ UNCHANGED pvars

\* a close handler that resolves whatever the code
OnClose_ResolveAlways ==
    Deliver("close", "resolved")

\* child.on("close", ...)
OnClose ==
    Deliver("close", IF CodeIsZero(norm) THEN "resolved" ELSE "rejected")

\* child.on("error", ...)
OnError ==
    Deliver("error", "rejected")

\* child.on("exit", ...)
OnExit ==
    Deliver("exit", IF CodeIsZero(norm) THEN "resolved" ELSE "rejected")

\* child.on("disconnect", ...)
OnDisconnect ==
    Deliver("disconnect", "rejected")

NextR ==
    \/ R_Spawn \/ OnClose \/ OnError \/ OnExit \/ OnDisconnect

SpecR == InitR /\ [][NextR]_vars

Delivered(ev) == \E i \in 1..Len(norm.delivered) : norm.delivered[i] = ev

\* the process has reported that it did not end with code 0, or that it
\* could not be spawned
FailureReported ==
    \/ norm.outcome = "throws" /\ norm.pc = "c.events"
    \/ norm.outcome = "spawnFail" /\ Delivered("error")
    \/ ~CodeIsZero(norm) /\ (Delivered("exit") \/ Delivered("close"))

\* C34: in whatever order the child's error, exit, close and disconnect
\* events arrive, the promise of runCommand is settled once and never again,
\* it is settled once an event has arrived, it is resolved only if the
\* process exited with code 0, and it is rejected if the process exited with
\* another code or could not be spawned.
C34_SettlesOnce ==
    norm.pc \in {"c.spawn", "c.events"} =>
        /\ norm.promise.settles <= 1
        /\ (norm.promise.state = "pending") = (norm.promise.settles = 0)
        /\ norm.delivered # <<>> => norm.promise.state # "pending"
        /\ norm.promise.state = "resolved" => CodeIsZero(norm)
        /\ FailureReported => norm.promise.state = "rejected"

\* the process exited with code 0, close arrived before exit, and both
\* handlers called resolve on a promise that settled once
C34_Witness ==
    /\ norm.pc = "c.events" /\ norm.pending = {}
    /\ norm.delivered = <<"close", "exit">>
    /\ norm.promise = [state |-> "resolved", calls |-> 2, settles |-> 1]

----------------------------------------------------------------------------
\* safeRename (specification SpecS): the subtitle is copied to its new path
\* and the old path is deleted, one file system call at a time.

\* what a subtitle file can hold; "absent" is no file, "partial" is what a
\* write that failed half way leaves behind
Contents == {"fa-1", "fa-2", "en-1"}

InitS ==
    /\ opts = [subtitleLang |-> "Persian", audioLang |-> "English",
               shouldConvert |-> TRUE, shouldClean |-> TRUE, shouldSync |-> TRUE,
               keepSubtitle |-> FALSE]
    /\ jobIdx = 0
    /\ jobStatus = [j \in 1..NumJobs |-> "pending"]
    /\ batch = "running" /\ pc = "safeRename" /\ fin = "none"
    /\ files = [video |-> Absent, sub |-> "absent", tempR |-> Absent, tempM |-> Absent]
    /\ log = <<>> /\ mergeState = "none" /\ rem = NoRem /\ exits = NoExits
    /\ adj = NoAdj /\ hist = NoHist
    /\ \E o \in Contents \cup {"absent"}, n \in Contents \cup {"absent"} :
          norm = [pc |-> "s.read", old |-> o, new |-> n, old0 |-> o, new0 |-> n,
                  content |-> "none", result |-> "none", warned |-> FALSE,
                  failed |-> "none", unlinkSaw |-> "none"]

\* catch (error) { throw new Error(`Safe rename failed: ${error}`) }
Throws(n, what) ==
    [n EXCEPT !.pc = "s.end", !.result = "threw", !.failed = what]

\* const content = await readFile(oldPath)
S_Read ==
    /\ norm.pc = "s.read"
    /\ \E ok \in BOOLEAN :
          /\ ok => norm.old # "absent"
          /\ norm' = IF ok
                     THEN [norm EXCEPT !.pc = "s.write", !.content = norm.old]
                     ELSE Throws(norm, "read")
    /\ UNCHANGED pvars

\* await writeFile(newPath, content): the whole content is written, or the
\* call fails with the new path untouched or holding part of the content
S_Write ==
    /\ norm.pc = "s.write"
    /\ \E how \in {"ok", "untouched", "partial"} :
          norm' = CASE how = "ok" ->
                         [norm EXCEPT !.pc = "s.exists", !.new = norm.content]
                    [] how = "untouched" -> Throws(norm, "write")
                    [] how = "partial" ->
                         Throws([norm EXCEPT !.new = "partial"], "write")
    /\ UNCHANGED pvars

\* if (existsSync(newPath)) ... else throw new Error("Failed to verify new
\* file"); the new file may have been removed by someone else meanwhile
S_Exists ==
    /\ norm.pc = "s.exists"
    /\ \E gone \in BOOLEAN :
          LET n1 == IF gone THEN [norm EXCEPT !.new = "absent"] ELSE norm
          IN norm' = IF n1.new # "absent"
                     THEN [n1 EXCEPT !.pc = "s.unlink"]
                     ELSE Throws(n1, "verify")
    /\ UNCHANGED pvars

\* an unlink whose failure is thrown to the caller
S_Unlink_Rethrow ==
    /\ norm.pc = "s.unlink"
    /\ \E ok \in BOOLEAN :
          norm' = IF ok
                  THEN [norm EXCEPT !.pc = "s.end", !.old = "absent",
                                    !.unlinkSaw = norm.new, !.result = "returned"]
                  ELSE Throws([norm EXCEPT !.unlinkSaw = norm.new], "unlink")
    /\ UNCHANGED pvars

\* try { await unlink(oldPath) } catch (unlinkError) { console.warn(...) }
S_Unlink ==
    /\ norm.pc = "s.unlink"
    /\ \E ok \in BOOLEAN :
          norm' = IF ok
                  THEN [norm EXCEPT !.pc = "s.end", !.old = "absent",
                                    !.unlinkSaw = norm.new, !.result = "returned"]
                  ELSE [norm EXCEPT !.pc = "s.end", !.warned = TRUE,
                                    !.unlinkSaw = norm.new, !.result = "returned"]
    /\ UNCHANGED pvars

NextS ==
    \/ S_Read \/ S_Write \/ S_Exists \/ S_Unlink

SpecS == InitS /\ [][NextS]_vars

\* C35: safeRename calls unlink on the old path only when the new path
\* holds the whole content read from the old one; when the read or the
\* write fails the old file is as it was and safeRename throws; when the
\* unlink fails after a successful write safeRename returns normally.
C35_SafeRename ==
    norm.pc \in {"s.read", "s.write", "s.exists", "s.unlink", "s.end"} =>
        /\ norm.unlinkSaw # "none" =>
              /\ norm.unlinkSaw = norm.content
              /\ norm.content = norm.old0 /\ norm.content \in Contents
        /\ norm.old # norm.old0 =>
              norm.old = "absent" /\ norm.unlinkSaw = norm.content
        /\ norm.failed \in {"read", "write"} =>
              /\ norm.result = "threw" /\ norm.old = norm.old0
              /\ norm.unlinkSaw = "none"
        /\ norm.warned =>
              /\ norm.result = "returned" /\ norm.failed = "none"
              /\ norm.new = norm.content
        /\ (norm.pc = "s.end" /\ norm.unlinkSaw # "none") => norm.result = "returned"
        /\ norm.pc = "s.end" => norm.result \in {"returned", "threw"}
        /\ norm.result = "threw" => norm.old = norm.old0

\* the old file could not be deleted after the content was written over a
\* different file at the new path: both paths hold the content and safeRename
\* returned with a warning
C35_Witness ==
    /\ norm.pc = "s.end" /\ norm.warned /\ norm.result = "returned"
    /\ norm.old0 = "fa-1" /\ norm.old = "fa-1" /\ norm.new = "fa-1"
    /\ norm.new0 = "en-1"
    /\ norm.unlinkSaw = "fa-1"

====
